---- MODULE Spec2Model ----
(***************************************************************************)
(* A model of lambda/github_sync.py: the Lambda handler that resolves a    *)
(* GitHub token from Secrets Manager (with a module-level cache), lists a  *)
(* user's repositories, keeps the most recently pushed ones and writes     *)
(* them as projects.json to S3.                                            *)
(*                                                                         *)
(* Python strings are sequences of atoms.  An atom is one character        *)
(* (" ", "{", ":", the double quote, ...) or a word without whitespace and *)
(* punctuation ("token", "a", "b"); str.strip, str.startswith and          *)
(* json.loads work on these sequences atom by atom.                        *)
(* Python values are tagged records: None, str, int, list, dict.           *)
(***************************************************************************)
EXTENDS Integers, Sequences, FiniteSets, TLC

\* ------------------------------------------------------------------------
\* Python values

PyNone == [t |-> "none"]
PyStr(s) == [t |-> "str", s |-> s]
PyInt == [t |-> "int"]
PyList(items) == [t |-> "list", items |-> items]
\* a dict is its items in insertion order, each <<key, value>>
PyDict(items) == [t |-> "dict", items |-> items]

\* isinstance(v, str)
IsStr(v) == v.t = "str"

\* bool(v) of None or a str: the test of `if _cached_secret:` and `if not s:`
Truthy(v) == IsStr(v) /\ v.s # <<>>

\* ------------------------------------------------------------------------
\* Characters

WS == " "
Quote == "\""
LBrace == "{"
RBrace == "}"
LBracket == "["
RBracket == "]"
Colon == ":"
Comma == ","
Digit == "1"
NullWord == "null"

\* ------------------------------------------------------------------------
\* str.strip()

RECURSIVE LStrip(_)
LStrip(s) ==
  IF s # <<>> /\ Head(s) = WS THEN LStrip(Tail(s)) ELSE s

RECURSIVE RStrip(_)
RStrip(s) ==
  IF s # <<>> /\ s[Len(s)] = WS THEN RStrip(SubSeq(s, 1, Len(s) - 1)) ELSE s

\* str.lstrip() in the place of str.strip()
StripLeftOnly(s) == LStrip(s)

Strip(s) == RStrip(LStrip(s))

\* secret_value.startswith("{")
StartsWithBrace(s) == s # <<>> /\ Head(s) = LBrace

\* ------------------------------------------------------------------------
\* json.loads: a recursive-descent decoder of objects, arrays, strings,
\* integers and null, with whitespace allowed between tokens.  A decoder
\* result is [ok, val, rest]; ok = FALSE is json.JSONDecodeError.

JsonFail == [ok |-> FALSE, val |-> PyNone, rest |-> <<>>]
JsonOk(v, rest) == [ok |-> TRUE, val |-> v, rest |-> rest]

\* index of the first Quote in s, or 0
RECURSIVE FindQuote(_, _)
FindQuote(s, i) ==
  IF i > Len(s) THEN 0
  ELSE IF s[i] = Quote THEN i
  ELSE FindQuote(s, i + 1)

\* s begins with the opening quote
parse_string(s) ==
  LET close == FindQuote(Tail(s), 1) IN
  IF close = 0 THEN JsonFail
  ELSE JsonOk(PyStr(SubSeq(Tail(s), 1, close - 1)),
              SubSeq(Tail(s), close + 1, Len(s) - 1))

RECURSIVE SkipDigits(_)
SkipDigits(s) ==
  IF s # <<>> /\ Head(s) = Digit THEN SkipDigits(Tail(s)) ELSE s

\* dict[key] = value: a repeated key keeps its place and takes the new value
DictSet(items, key, value) ==
  IF \E n \in 1..Len(items) : items[n][1] = key
  THEN [n \in 1..Len(items) |->
          IF items[n][1] = key THEN <<key, value>> ELSE items[n]]
  ELSE Append(items, <<key, value>>)

RECURSIVE parse_value(_), parse_members(_, _), parse_elements(_, _)

parse_value(s) ==
  LET u == LStrip(s) IN
  IF u = <<>> THEN JsonFail
  ELSE IF Head(u) = LBrace THEN
    (IF LStrip(Tail(u)) # <<>> /\ Head(LStrip(Tail(u))) = RBrace
     THEN JsonOk(PyDict(<<>>), Tail(LStrip(Tail(u))))
     ELSE parse_members(Tail(u), <<>>))
  ELSE IF Head(u) = LBracket THEN
    (IF LStrip(Tail(u)) # <<>> /\ Head(LStrip(Tail(u))) = RBracket
     THEN JsonOk(PyList(<<>>), Tail(LStrip(Tail(u))))
     ELSE parse_elements(Tail(u), <<>>))
  ELSE IF Head(u) = Quote THEN parse_string(u)
  ELSE IF Head(u) = Digit THEN JsonOk(PyInt, SkipDigits(u))
  ELSE IF Head(u) = NullWord THEN JsonOk(PyNone, Tail(u))
  ELSE JsonFail

\* the members of an object after "{" or ",": "key" : value, then "," or "}"
parse_members(s, acc) ==
  LET u == LStrip(s) IN
  IF u = <<>> \/ Head(u) # Quote THEN JsonFail
  ELSE
    LET k == parse_string(u) IN
    IF ~k.ok THEN JsonFail
    ELSE
      LET c == LStrip(k.rest) IN
      IF c = <<>> \/ Head(c) # Colon THEN JsonFail
      ELSE
        LET v == parse_value(Tail(c)) IN
        IF ~v.ok THEN JsonFail
        ELSE
          LET w == LStrip(v.rest)
              items == DictSet(acc, k.val.s, v.val)
          IN
          IF w = <<>> THEN JsonFail
          ELSE IF Head(w) = RBrace THEN JsonOk(PyDict(items), Tail(w))
          ELSE IF Head(w) = Comma THEN parse_members(Tail(w), items)
          ELSE JsonFail

\* the elements of an array after "[" or ",": value, then "," or "]"
parse_elements(s, acc) ==
  LET v == parse_value(s) IN
  IF ~v.ok THEN JsonFail
  ELSE
    LET w == LStrip(v.rest) IN
    IF w = <<>> THEN JsonFail
    ELSE IF Head(w) = RBracket THEN JsonOk(PyList(Append(acc, v.val)), Tail(w))
    ELSE IF Head(w) = Comma THEN parse_elements(Tail(w), Append(acc, v.val))
    ELSE JsonFail

\* json.loads(text): one value, then nothing but whitespace
json_loads(text) ==
  LET r == parse_value(text) IN
  IF r.ok /\ LStrip(r.rest) = <<>> THEN JsonOk(r.val, <<>>) ELSE JsonFail

\* ------------------------------------------------------------------------
\* _load_token, lines 21-63: from the SecretString to the token

\* a changed order: "pat" before "token"
PRIORITY_KEYS_pat_first ==
  << <<"pat">>, <<"token">>, <<"Token">>, <<"PAT">>,
     <<"github_token">>, <<"githubToken">>, <<"value">> >>

\* line 35
PRIORITY_KEYS ==
  << <<"token">>, <<"Token">>, <<"PAT">>, <<"pat">>,
     <<"github_token">>, <<"githubToken">>, <<"value">> >>

\* payload.get(key)
DictGet(items, key) ==
  IF \E n \in 1..Len(items) : items[n][1] = key
  THEN items[CHOOSE n \in 1..Len(items) : items[n][1] = key][2]
  ELSE PyNone

\* isinstance(candidate, str) and candidate.strip()
IsCandidate(v) == IsStr(v) /\ Strip(v.s) # <<>>

First(S) == CHOOSE n \in S : \A m \in S : n <= m

\* lines 35-45: the priority keys in order, then payload.values() in order
dict_candidate(items) ==
  LET byKey == {n \in 1..Len(PRIORITY_KEYS) :
                  IsCandidate(DictGet(items, PRIORITY_KEYS[n]))}
      byValue == {n \in 1..Len(items) : IsCandidate(items[n][2])}
  IN
  IF byKey # {} THEN PyStr(Strip(DictGet(items, PRIORITY_KEYS[First(byKey)]).s))
  ELSE IF byValue # {} THEN PyStr(Strip(items[First(byValue)][2].s))
  ELSE PyNone

\* lines 47-50
list_candidate(items) ==
  LET hits == {n \in 1..Len(items) : IsCandidate(items[n])} IN
  IF hits # {} THEN PyStr(Strip(items[First(hits)].s)) ELSE PyNone

\* lines 32-50: candidate_value, None when nothing qualifies
candidate_value(payload) ==
  IF payload.t = "dict" THEN dict_candidate(payload.items)
  ELSE IF payload.t = "list" THEN list_candidate(payload.items)
  ELSE PyNone

Resolved(value) == [err |-> "none", value |-> value]
Raised(kind) == [err |-> kind, value |-> <<>>]

\* the decode error left to propagate
decode_error_raise(secret_value) == Raised("JSONDecodeError")

\* lines 59-60: except json.JSONDecodeError: pass
decode_error(secret_value) == Resolved(secret_value)

\* the whole text taken as the token when the JSON holds none
no_candidate_fallback(secret_value) == Resolved(secret_value)

\* lines 52-56: raise RuntimeError("Secret JSON found but no token field ...")
no_candidate(secret_value) == Raised("SecretJSONNoToken")

\* lines 21-63 without the cache write: the token or the error raised
resolve_secret(secret_string) ==
  IF ~Truthy(secret_string) THEN Raised("SecretMissing")
  ELSE
    LET secret_value == Strip(secret_string.s) IN
    IF secret_value = <<>> THEN Raised("SecretEmpty")
    ELSE IF StartsWithBrace(secret_value) THEN
      LET decoded == json_loads(secret_value) IN
      IF ~decoded.ok THEN decode_error(secret_value)
      ELSE
        LET candidate == candidate_value(decoded.val) IN
        IF candidate = PyNone THEN no_candidate(secret_value)
        ELSE Resolved(candidate.s)
    ELSE Resolved(secret_value)

\* ------------------------------------------------------------------------
\* lambda_handler, lines 146-151: sorted(..., reverse=True)[:repo_limit]

\* a raw repository whose "pushed_at" key is missing
Absent == [t |-> "absent"]

\* key=lambda item: item.get("pushed_at", "")
sort_key(item) ==
  IF item.pushed_at = Absent THEN PyStr(<<>>) ELSE item.pushed_at

\* a < b on two str, by code point
RECURSIVE StrLess(_, _)
StrLess(a, b) ==
  IF b = <<>> THEN FALSE
  ELSE IF a = <<>> THEN TRUE
  ELSE IF Head(a) # Head(b) THEN Head(a) < Head(b)
  ELSE StrLess(Tail(a), Tail(b))

\* list.sort compares every element with another one once there are two;
\* `<` between None and a str, or between None and None, is a TypeError
sort_raises(items) ==
  Len(items) >= 2 /\ \E n \in 1..Len(items) : ~IsStr(sort_key(items[n]))

\* x goes behind every element whose key is not smaller: descending, and
\* equal keys stay in their original order (reverse=True keeps stability)
RECURSIVE InsertDesc(_, _)
InsertDesc(sorted, x) ==
  IF sorted = <<>> THEN <<x>>
  ELSE IF StrLess(sort_key(Head(sorted)).s, sort_key(x).s)
       THEN <<x>> \o sorted
       ELSE <<Head(sorted)>> \o InsertDesc(Tail(sorted), x)

RECURSIVE SortedDesc(_, _)
SortedDesc(items, acc) ==
  IF items = <<>> THEN acc
  ELSE SortedDesc(Tail(items), InsertDesc(acc, Head(items)))

sorted_repos(items) == SortedDesc(items, <<>>)

\* seq[:limit + 1]
SliceOneMore(seq, limit) ==
  SubSeq(seq, 1, IF limit + 1 < Len(seq) THEN limit + 1 ELSE Len(seq))

\* seq[:limit], a negative limit counting from the end
Slice(seq, limit) ==
  IF limit >= 0
  THEN SubSeq(seq, 1, IF limit < Len(seq) THEN limit ELSE Len(seq))
  ELSE SubSeq(seq, 1, IF Len(seq) + limit > 0 THEN Len(seq) + limit ELSE 0)

\* lines 87-107, the fields that depend on the record
_transform_repo(raw) ==
  [repo |-> raw.full_name,
   lastPush |-> IF IsStr(raw.pushed_at) THEN raw.pushed_at ELSE PyNone,
   status |-> "ok"]

\* lines 110-115
build_payload(repos) ==
  [source |-> "aws-lambda",
   projects |-> [n \in 1..Len(repos) |-> _transform_repo(repos[n])]]

\* ------------------------------------------------------------------------
\* _github_request, lines 75-84: what urlopen did decides the result

FetchOutcomes == {"ok", "not_list", "http_error", "url_error"}

\* the listing as the API returns it: one record per repository
RawRepos(listing) ==
  [n \in 1..Len(listing) |-> [full_name |-> n, pushed_at |-> listing[n]]]

\* an HTTP error answered with an empty list
_github_request_swallow(outcome, listing) ==
  IF outcome = "http_error" THEN [err |-> "none", payload |-> PyList(<<>>)]
  ELSE IF outcome = "url_error" THEN [err |-> "GitHubNetworkError", payload |-> PyNone]
  ELSE IF outcome = "not_list" THEN [err |-> "none", payload |-> PyDict(<<>>)]
  ELSE [err |-> "none", payload |-> PyList(RawRepos(listing))]

_github_request(outcome, listing) ==
  IF outcome = "http_error" THEN [err |-> "GitHubHTTPError", payload |-> PyNone]
  ELSE IF outcome = "url_error" THEN [err |-> "GitHubNetworkError", payload |-> PyNone]
  ELSE IF outcome = "not_list" THEN [err |-> "none", payload |-> PyDict(<<>>)]
  ELSE [err |-> "none", payload |-> PyList(RawRepos(listing))]

\* ------------------------------------------------------------------------
\* Bounds and input pools

NumProcs == 2
MaxInvocations == 3
MaxRepos == 3
MaxEntries == 2

\* int(os.environ.get("REPO_LIMIT", "5"))
DEFAULT_REPO_LIMIT == 5
\* os.environ["SITE_BUCKET_NAME"]
SITE_BUCKET_NAME == "site-bucket"
\* os.environ.get("PROJECTS_OBJECT_KEY", "projects.json")
PROJECTS_OBJECT_KEY == "projects.json"

Procs == 1..NumProcs
\* the invocation of a process that runs one invocation at a time
Main == 1

\* a JSON string literal
Lit(s) == <<Quote>> \o s \o <<Quote>>

KeyPool == {PRIORITY_KEYS[n] : n \in 1..Len(PRIORITY_KEYS)} \cup {<<"k">>}
ValueTexts == {Lit(<<"b">>), Lit(<<WS, "a", WS>>), Lit(<<WS>>), <<Digit>>}
ItemTexts == {Lit(<<>>), Lit(<<"a">>), Lit(<<WS, "b">>), <<NullWord>>}
EntryTexts == {Lit(k) \o <<Colon>> \o v : k \in KeyPool, v \in ValueTexts}

\* n texts of `pool`, joined by commas
RECURSIVE Joined(_, _)
Joined(pool, n) ==
  IF n = 1 THEN pool
  ELSE {a \o <<Comma>> \o e : a \in Joined(pool, n - 1), e \in pool}

ObjectTexts(n) ==
  {<<LBrace, RBrace>>} \cup
  {<<LBrace>> \o m \o <<RBrace>> : m \in UNION {Joined(EntryTexts, j) : j \in 1..n}}
ArrayTexts(n) ==
  {<<LBracket, RBracket>>} \cup
  {<<LBracket>> \o m \o <<RBracket>> : m \in UNION {Joined(ItemTexts, j) : j \in 1..n}}

PlainTexts ==
  {<<"a">>, <<"a", WS, "b">>, <<"b", LBrace>>, Lit(<<"a">>), <<Digit>>}
\* texts that begin like an object and are no JSON
BrokenTexts ==
  UNION {{SubSeq(t, 1, n) : n \in {1, 2, 4, 5, Len(t) - 1}} :
           t \in {<<LBrace>> \o e \o <<RBrace>> : e \in EntryTexts}}
  \cup {t \o <<"a">> : t \in ObjectTexts(1)}
  \cup {<<LBrace>> \o e \o <<Comma, RBrace>> : e \in EntryTexts}
SpacedTexts ==
  {<<LBrace, WS>> \o Lit(k) \o <<WS, Colon, WS>> \o v \o <<WS, RBrace>> :
     k \in {<<"pat">>, <<"k">>}, v \in ValueTexts}
Padded(S) == S \cup {<<WS>> \o t \o <<WS, WS>> : t \in S}

\* the SecretStrings a cold _load_token is run on; None is a secret
\* without a SecretString
SecretTexts ==
  {<<>>, <<WS>>}
  \cup Padded(PlainTexts \cup BrokenTexts \cup ArrayTexts(MaxEntries)
              \cup ObjectTexts(1) \cup SpacedTexts)
  \cup ObjectTexts(MaxEntries)
SecretStrings == {PyNone} \cup {PyStr(t) : t \in SecretTexts}

\* the SecretStrings the secret takes over a sequence of invocations: one
\* of each kind
FewSecrets ==
  {PyNone, PyStr(<<WS>>), PyStr(<<WS, "a">>), PyStr(<<"b">>),
   PyStr(<<LBrace>> \o Lit(<<"token">>) \o <<Colon>> \o Lit(<<"a", WS>>) \o <<RBrace>>),
   PyStr(<<LBrace>> \o Lit(<<"k">>) \o <<Colon, Digit, RBrace>>),
   PyStr(<<LBrace>> \o Lit(<<"k">>) \o <<Colon>>),
   PyStr(<<LBrace>> \o Lit(<<"k">>) \o <<Colon>> \o Lit(<<WS, "b", WS>>) \o <<RBrace>>),
   PyStr(<<>>),
   PyStr(<<LBracket>> \o Lit(<<>>) \o <<Comma>> \o Lit(<<"a">>) \o <<RBracket>>)}
PipelineSecrets == {PyNone, PyStr(<<"a">>)}

\* pushed_at: missing, null, or a string of code points
DateStrings == {<<1>>, <<1, 2>>, <<2>>}
PushedValues == {Absent, PyNone} \cup {PyStr(d) : d \in DateStrings}
Listings == UNION {[1..n -> PushedValues] : n \in 0..MaxRepos}
RepoLimits == {-1, 0, 2, DEFAULT_REPO_LIMIT}

\* ------------------------------------------------------------------------
\* State

VARIABLES
  secret,            \* Secrets Manager: the SecretString, or None
  github,            \* GitHub: pushed_at of each repository of the user
  repo_limit,        \* REPO_LIMIT
  _cached_secret,    \* the module global
  bucket_object,     \* S3: the object at bucket/key, or NoObject
  pc,                \* where each invocation stands
  secret_string,     \* _load_token's local
  token,             \* lambda_handler's local
  response,          \* what urlopen did in this invocation
  repos,             \* lambda_handler's local
  top_repos,         \* lambda_handler's local
  raised,            \* the exception that ended the invocation
  result,            \* the returned record
  started,           \* invocations begun
  get_secret_calls,  \* calls of get_secret_value
  cache_writes,      \* assignments to _cached_secret
  cache_hit,         \* _load_token returned at line 18
  put_calls,         \* calls of put_object in this invocation
  object_at_start    \* bucket_object when this invocation began

vars ==
  <<secret, github, repo_limit, _cached_secret, bucket_object, pc,
    secret_string, token, response, repos, top_repos, raised, result,
    started, get_secret_calls, cache_writes, cache_hit, put_calls,
    object_at_start>>

env == <<secret, github, repo_limit>>

NoObject == [t |-> "absent"]
NoResult == [status |-> "none"]

InitState ==
  /\ _cached_secret = PyNone
  /\ bucket_object = NoObject
  /\ pc = [i \in Procs |-> "idle"]
  /\ secret_string = [i \in Procs |-> PyNone]
  /\ token = [i \in Procs |-> PyNone]
  /\ response = [i \in Procs |-> "none"]
  /\ repos = [i \in Procs |-> <<>>]
  /\ top_repos = [i \in Procs |-> <<>>]
  /\ raised = [i \in Procs |-> "none"]
  /\ result = [i \in Procs |-> NoResult]
  /\ started = 0
  /\ get_secret_calls = 0
  /\ cache_writes = 0
  /\ cache_hit = [i \in Procs |-> FALSE]
  /\ put_calls = [i \in Procs |-> 0]
  /\ object_at_start = [i \in Procs |-> NoObject]

\* ------------------------------------------------------------------------
\* Actions

\* the runtime invokes lambda_handler; lines 130-134 read the environment
Invoke(i) ==
  /\ pc[i] \in {"idle", "done", "failed"}
  /\ started < MaxInvocations
  /\ started' = started + 1
  /\ pc' = [pc EXCEPT ![i] = "load_token"]
  /\ secret_string' = [secret_string EXCEPT ![i] = PyNone]
  /\ token' = [token EXCEPT ![i] = PyNone]
  /\ response' = [response EXCEPT ![i] = "none"]
  /\ repos' = [repos EXCEPT ![i] = <<>>]
  /\ top_repos' = [top_repos EXCEPT ![i] = <<>>]
  /\ raised' = [raised EXCEPT ![i] = "none"]
  /\ result' = [result EXCEPT ![i] = NoResult]
  /\ cache_hit' = [cache_hit EXCEPT ![i] = FALSE]
  /\ put_calls' = [put_calls EXCEPT ![i] = 0]
  /\ object_at_start' = [object_at_start EXCEPT ![i] = bucket_object]
  /\ UNCHANGED <<env, _cached_secret, bucket_object, get_secret_calls, cache_writes>>

\* the cache never consulted
CacheHitNever(cached) == FALSE

\* if _cached_secret: the test of line 17
CacheHit(cached) == Truthy(cached)

\* _load_token, lines 17-18
load_token_cached(i) ==
  /\ pc[i] = "load_token"
  /\ IF CacheHit(_cached_secret)
     THEN /\ token' = [token EXCEPT ![i] = _cached_secret]
          /\ cache_hit' = [cache_hit EXCEPT ![i] = TRUE]
          /\ pc' = [pc EXCEPT ![i] = "request"]
     ELSE /\ pc' = [pc EXCEPT ![i] = "get_secret"]
          /\ UNCHANGED <<token, cache_hit>>
  /\ UNCHANGED <<env, _cached_secret, bucket_object, secret_string, response,
                 repos, top_repos, raised, result, started, get_secret_calls,
                 cache_writes, put_calls, object_at_start>>

\* _load_token, lines 20-21
get_secret_value(i) ==
  /\ pc[i] = "get_secret"
  /\ secret_string' = [secret_string EXCEPT ![i] = secret]
  /\ get_secret_calls' = get_secret_calls + 1
  /\ pc' = [pc EXCEPT ![i] = "resolve"]
  /\ UNCHANGED <<env, _cached_secret, bucket_object, token, response, repos,
                 top_repos, raised, result, started, cache_writes, cache_hit,
                 put_calls, object_at_start>>

\* the SecretString cached as it came
cached_raw(secret_string_, secret_value) == secret_string_

\* line 62: what _cached_secret becomes
cached_value(secret_string_, secret_value) == PyStr(secret_value)

\* _load_token, lines 22-63
load_token_resolve(i) ==
  /\ pc[i] = "resolve"
  /\ LET r == resolve_secret(secret_string[i]) IN
     IF r.err # "none"
     THEN /\ raised' = [raised EXCEPT ![i] = r.err]
          /\ pc' = [pc EXCEPT ![i] = "failed"]
          /\ UNCHANGED <<_cached_secret, cache_writes, token>>
     ELSE /\ _cached_secret' = cached_value(secret_string[i], r.value)
          /\ cache_writes' = cache_writes + 1
          /\ token' = [token EXCEPT ![i] = PyStr(r.value)]
          /\ pc' = [pc EXCEPT ![i] = "request"]
          /\ UNCHANGED raised
  /\ UNCHANGED <<env, bucket_object, secret_string, response, repos, top_repos,
                 result, started, get_secret_calls, cache_hit, put_calls,
                 object_at_start>>

\* lambda_handler, lines 142-144
github_request(i) ==
  /\ pc[i] = "request"
  /\ \E outcome \in FetchOutcomes :
       LET r == _github_request(outcome, github) IN
       /\ response' = [response EXCEPT ![i] = outcome]
       /\ IF r.err # "none"
          THEN /\ raised' = [raised EXCEPT ![i] = r.err]
               /\ pc' = [pc EXCEPT ![i] = "failed"]
               /\ UNCHANGED repos
          ELSE IF r.payload.t # "list"
          THEN /\ raised' = [raised EXCEPT ![i] = "UnexpectedPayloadShape"]
               /\ pc' = [pc EXCEPT ![i] = "failed"]
               /\ UNCHANGED repos
          ELSE /\ repos' = [repos EXCEPT ![i] = r.payload.items]
               /\ pc' = [pc EXCEPT ![i] = "sort"]
               /\ UNCHANGED raised
  /\ UNCHANGED <<env, _cached_secret, bucket_object, secret_string, token,
                 top_repos, result, started, get_secret_calls, cache_writes,
                 cache_hit, put_calls, object_at_start>>

\* lambda_handler, lines 146-151
sort_and_truncate(i) ==
  /\ pc[i] = "sort"
  /\ IF sort_raises(repos[i])
     THEN /\ raised' = [raised EXCEPT ![i] = "TypeError"]
          /\ pc' = [pc EXCEPT ![i] = "failed"]
          /\ UNCHANGED top_repos
     ELSE /\ top_repos' = [top_repos EXCEPT ![i] =
                             Slice(sorted_repos(repos[i]), repo_limit)]
          /\ pc' = [pc EXCEPT ![i] = "put"]
          /\ UNCHANGED raised
  /\ UNCHANGED <<env, _cached_secret, bucket_object, secret_string, token,
                 response, repos, result, started, get_secret_calls,
                 cache_writes, cache_hit, put_calls, object_at_start>>

\* lambda_handler, lines 153-154: put_object stores the payload or raises
put_to_s3(i) ==
  /\ pc[i] = "put"
  /\ put_calls' = [put_calls EXCEPT ![i] = @ + 1]
  /\ \/ /\ bucket_object' = [bucket |-> SITE_BUCKET_NAME,
                             key |-> PROJECTS_OBJECT_KEY,
                             body |-> build_payload(top_repos[i])]
        /\ pc' = [pc EXCEPT ![i] = "return"]
        /\ UNCHANGED raised
     \/ /\ raised' = [raised EXCEPT ![i] = "S3Error"]
        /\ pc' = [pc EXCEPT ![i] = "failed"]
        /\ UNCHANGED bucket_object
  /\ UNCHANGED <<env, _cached_secret, secret_string, token, response, repos,
                 top_repos, result, started, get_secret_calls, cache_writes,
                 cache_hit, object_at_start>>

\* lambda_handler, lines 156-161
return_result(i) ==
  /\ pc[i] = "return"
  /\ result' = [result EXCEPT ![i] =
                  [status |-> "ok", bucket |-> SITE_BUCKET_NAME,
                   key |-> PROJECTS_OBJECT_KEY, count |-> Len(top_repos[i])]]
  /\ pc' = [pc EXCEPT ![i] = "done"]
  /\ UNCHANGED <<env, _cached_secret, bucket_object, secret_string, token,
                 response, repos, top_repos, raised, started, get_secret_calls,
                 cache_writes, cache_hit, put_calls, object_at_start>>

\* the secret is replaced in Secrets Manager
RotateSecret ==
  /\ \E s \in FewSecrets : s # secret /\ secret' = s
  /\ UNCHANGED <<github, repo_limit, _cached_secret, bucket_object, pc,
                 secret_string, token, response, repos, top_repos, raised,
                 result, started, get_secret_calls, cache_writes, cache_hit,
                 put_calls, object_at_start>>

load_token(i) ==
  \/ load_token_cached(i)
  \/ get_secret_value(i)
  \/ load_token_resolve(i)

lambda_handler(i) ==
  \/ load_token(i)
  \/ github_request(i)
  \/ sort_and_truncate(i)
  \/ put_to_s3(i)
  \/ return_result(i)

\* ------------------------------------------------------------------------
\* Specifications

\* one warm process, one invocation at a time, any listing and REPO_LIMIT
Init ==
  /\ InitState
  /\ secret \in PipelineSecrets
  /\ github \in Listings
  /\ repo_limit \in RepoLimits
Next == Invoke(Main) \/ lambda_handler(Main)
Spec == Init /\ [][Next]_vars

\* one warm process, one invocation at a time, the secret changing
InitCache ==
  /\ InitState
  /\ secret \in FewSecrets
  /\ github \in [1..1 -> PushedValues]
  /\ repo_limit = DEFAULT_REPO_LIMIT
NextCache == Invoke(Main) \/ lambda_handler(Main) \/ RotateSecret
SpecCache == InitCache /\ [][NextCache]_vars

\* one cold _load_token call on every SecretString
InitResolve ==
  /\ InitState
  /\ secret \in SecretStrings
  /\ github = <<>>
  /\ repo_limit = DEFAULT_REPO_LIMIT
NextResolve == Invoke(Main) \/ load_token(Main)
SpecResolve == InitResolve /\ [][NextResolve]_vars

\* invocations running concurrently in one process, the secret unchanged
InitConc ==
  /\ InitState
  /\ secret \in FewSecrets
  /\ github = <<>>
  /\ repo_limit = DEFAULT_REPO_LIMIT
NextConc == \E i \in Procs : Invoke(i) \/ load_token(i)
SpecConc == InitConc /\ [][NextConc]_vars

\* ------------------------------------------------------------------------
\* Vocabulary of the properties, stated without the operators of the model

Min2(a, b) == IF a < b THEN a ELSE b
Max2(a, b) == IF a > b THEN a ELSE b

\* s without its leading and trailing whitespace
Trimmed(s) ==
  LET inked == {n \in 1..Len(s) : s[n] # WS} IN
  IF inked = {} THEN <<>>
  ELSE SubSeq(s, CHOOSE n \in inked : \A m \in inked : n <= m,
                 CHOOSE n \in inked : \A m \in inked : n >= m)

\* the ordering key of a pushed_at: null and missing count as ""
OrderKey(pushed_at) == IF IsStr(pushed_at) THEN pushed_at.s ELSE <<>>

\* the place of repository n of the listing when ordered by pushed_at
\* descending, repositories of equal key in their listing order
Place(listing, n) ==
  1 + Cardinality({m \in 1..Len(listing) :
        \/ StrLess(OrderKey(listing[n]), OrderKey(listing[m]))
        \/ OrderKey(listing[m]) = OrderKey(listing[n]) /\ m < n})

\* the invocation fetched the listing and has ended
Fetched(i) == response[i] = "ok" /\ pc[i] \in {"done", "failed"}

\* the stored projects are the listing in order, cut to `count` records
StoredInOrder(count) ==
  /\ bucket_object # NoObject
  /\ Len(bucket_object.body.projects) = count
  /\ \A n \in 1..Len(github) :
       Place(github, n) <= count =>
         /\ bucket_object.body.projects[Place(github, n)].repo = n
         /\ bucket_object.body.projects[Place(github, n)].lastPush =
              (IF IsStr(github[n]) THEN github[n] ELSE PyNone)

\* ------------------------------------------------------------------------
\* C1: whenever the fetched records have a pushed_at that is a string, null
\* or missing, the invocation gets past the sort, and once it has returned,
\* the stored projects are the fetched records ordered by pushed_at
\* descending, null and missing ordered as "", cut to the first REPO_LIMIT.
C1_SortsNullLast ==
  \A i \in {Main} :
    (Fetched(i) /\ repo_limit >= 0) =>
      /\ raised[i] # "TypeError"
      /\ pc[i] = "done" => StoredInOrder(Min2(repo_limit, Len(github)))

\* C4: put_object is called at most once in an invocation, and only with a
\* token resolved, a list fetched whose sort and transform went through; an
\* invocation that failed left the stored object as it found it, and an
\* object that changed holds one transformed record per selected record.
C4_NoPartialWrite ==
  \A i \in {Main} :
    /\ put_calls[i] <= 1
    /\ put_calls[i] = 1 =>
         /\ Truthy(token[i])
         /\ response[i] = "ok"
         /\ Len(github) < 2 \/ \A n \in 1..Len(github) : github[n] # PyNone
    /\ pc[i] = "failed" => bucket_object = object_at_start[i]
    /\ (raised[i] # "none" /\ raised[i] # "S3Error") => put_calls[i] = 0
    /\ bucket_object # object_at_start[i] =>
         /\ pc[i] \in {"return", "done"}
         /\ put_calls[i] = 1
         /\ Len(bucket_object.body.projects) = Len(top_repos[i])
         /\ \A n \in 1..Len(top_repos[i]) :
              bucket_object.body.projects[n].status = "ok"

\* C4 witness: an invocation failed on an HTTP error after an earlier one
\* had stored an object.
C4_Witness ==
  /\ pc[Main] = "failed"
  /\ raised[Main] = "GitHubHTTPError"
  /\ started >= 2
  /\ bucket_object # NoObject

\* C8 as claimed: for any integer REPO_LIMIT a returned invocation stored
\* min(REPO_LIMIT, n) records, never more than REPO_LIMIT, and reports
\* their number with status "ok" and the bucket and key written.
C8_AnyLimit ==
  \A i \in {Main} :
    pc[i] = "done" =>
      /\ Len(bucket_object.body.projects) <= repo_limit
      /\ Len(bucket_object.body.projects) = Min2(repo_limit, Len(github))
      /\ result[i].count = Len(bucket_object.body.projects)
      /\ result[i].status = "ok"
      /\ result[i].bucket = bucket_object.bucket
      /\ result[i].key = bucket_object.key

\* C8 amended: for REPO_LIMIT >= 0 a returned invocation stored
\* min(REPO_LIMIT, n) records; for REPO_LIMIT < 0 it stored
\* max(0, n + REPO_LIMIT); the count returned is the number stored, with
\* status "ok" and the bucket and key written.
C8_CountMatches ==
  \A i \in {Main} :
    pc[i] = "done" =>
      /\ repo_limit >= 0 =>
           Len(bucket_object.body.projects) = Min2(repo_limit, Len(github))
      /\ repo_limit < 0 =>
           Len(bucket_object.body.projects) = Max2(0, Len(github) + repo_limit)
      /\ result[i].count = Len(bucket_object.body.projects)
      /\ result[i].status = "ok"
      /\ result[i].bucket = bucket_object.bucket
      /\ result[i].key = bucket_object.key

\* C8 witness: a returned invocation with more records than REPO_LIMIT, all
\* the records it kept being stored.
C8_Witness ==
  /\ pc[Main] = "done"
  /\ repo_limit = 2
  /\ Len(github) = 3
  /\ result[Main].count = 2

\* ------------------------------------------------------------------------
\* Properties of _load_token on one SecretString (SpecResolve)

\* _load_token went through lines 20-63 in this invocation and has ended
ResolvedCold(i) ==
  /\ pc[i] \in {"request", "failed"}
  /\ ~cache_hit[i]
  /\ IsStr(secret_string[i])

\* the SecretString, trimmed, decoded as JSON
Decoded(i) == json_loads(Trimmed(secret_string[i].s))

NonEmptyStr(v) == IsStr(v) /\ v.s # <<>>
NonBlankStr(v) == IsStr(v) /\ Trimmed(v.s) # <<>>

\* the priority of the keys, as section 4.1 lists them
KeyPriority ==
  << <<"token">>, <<"Token">>, <<"PAT">>, <<"pat">>,
     <<"github_token">>, <<"githubToken">>, <<"value">> >>

\* the value the mapping holds at the key, None when it has none
Held(items, key) ==
  IF \E n \in 1..Len(items) : items[n][1] = key
  THEN items[CHOOSE n \in 1..Len(items) : items[n][1] = key][2]
  ELSE PyNone

\* v is the value of the first key, in priority order, whose value passes
\* `Ok`; without such a key, the first value of the mapping that passes
IsFirstChoice(items, v, Ok(_)) ==
  IF \E k \in 1..Len(KeyPriority) : Ok(Held(items, KeyPriority[k]))
  THEN \E k \in 1..Len(KeyPriority) :
         /\ Ok(Held(items, KeyPriority[k]))
         /\ \A j \in 1..(k - 1) : ~Ok(Held(items, KeyPriority[j]))
         /\ v = Held(items, KeyPriority[k])
  ELSE \E n \in 1..Len(items) :
         /\ Ok(items[n][2])
         /\ \A j \in 1..(n - 1) : ~Ok(items[j][2])
         /\ v = items[n][2]

HasChoice(items, Ok(_)) == \E n \in 1..Len(items) : Ok(items[n][2])

\* C2: a SecretString that is a JSON array with a non-empty string element
\* resolves to the first such element.
C2_ArrayFirstString ==
  \A i \in {Main} :
    (/\ ResolvedCold(i)
     /\ Decoded(i).ok
     /\ Decoded(i).val.t = "list"
     /\ \E n \in 1..Len(Decoded(i).val.items) : NonEmptyStr(Decoded(i).val.items[n]))
    => /\ pc[i] = "request"
       /\ \E n \in 1..Len(Decoded(i).val.items) :
            /\ NonEmptyStr(Decoded(i).val.items[n])
            /\ \A j \in 1..(n - 1) : ~NonEmptyStr(Decoded(i).val.items[j])
            /\ token[i] = Decoded(i).val.items[n]

\* C5 as claimed: a SecretString that is a JSON mapping resolves to the
\* value of the first priority key holding a non-empty string, and without
\* one to the first non-empty string value of the mapping.
C5_FirstNonEmpty ==
  \A i \in {Main} :
    (/\ ResolvedCold(i)
     /\ Decoded(i).ok
     /\ Decoded(i).val.t = "dict"
     /\ HasChoice(Decoded(i).val.items, NonEmptyStr))
    => /\ pc[i] = "request"
       /\ IsFirstChoice(Decoded(i).val.items, token[i], NonEmptyStr)

\* C5 amended: a SecretString that is a JSON mapping resolves to the
\* trimmed value of the first priority key holding a string that is not
\* empty after trimming, and without one to the trimmed first such value
\* of the mapping, whatever the order of the keys in the JSON.
C5_FirstNonBlankTrimmed ==
  \A i \in {Main} :
    (/\ ResolvedCold(i)
     /\ Decoded(i).ok
     /\ Decoded(i).val.t = "dict"
     /\ HasChoice(Decoded(i).val.items, NonBlankStr))
    => /\ pc[i] = "request"
       /\ \E v \in {Decoded(i).val.items[n][2] : n \in 1..Len(Decoded(i).val.items)} :
            /\ IsFirstChoice(Decoded(i).val.items, v, NonBlankStr)
            /\ token[i] = PyStr(Trimmed(v.s))

\* C5 witness: the mapping holds "pat" before "token", both with a token,
\* and the value of "token" was returned, trimmed.
C5_Witness ==
  /\ ResolvedCold(Main)
  /\ pc[Main] = "request"
  /\ Decoded(Main).ok
  /\ Decoded(Main).val.t = "dict"
  /\ Len(Decoded(Main).val.items) = 2
  /\ Decoded(Main).val.items[1] = << <<"pat">>, PyStr(<<"b">>) >>
  /\ Decoded(Main).val.items[2] = << <<"token">>, PyStr(<<WS, "a", WS>>) >>
  /\ token[Main] = PyStr(<<"a">>)

\* C6: a SecretString whose trimmed text is not empty and either does not
\* begin with "{" or begins with "{" and is no JSON resolves to the trimmed
\* text, which is cached.
C6_PlainText ==
  \A i \in {Main} :
    (/\ ResolvedCold(i)
     /\ Trimmed(secret_string[i].s) # <<>>
     /\ \/ Head(Trimmed(secret_string[i].s)) # LBrace
        \/ ~Decoded(i).ok)
    => /\ pc[i] = "request"
       /\ token[i] = PyStr(Trimmed(secret_string[i].s))
       /\ _cached_secret = PyStr(Trimmed(secret_string[i].s))

\* C6 witness: a padded text that begins with "{" and is no JSON was
\* returned without its padding.
C6_Witness ==
  /\ ResolvedCold(Main)
  /\ pc[Main] = "request"
  /\ Head(token[Main].s) = LBrace
  /\ ~Decoded(Main).ok
  /\ token[Main] # secret_string[Main]
  /\ _cached_secret = token[Main]

\* ------------------------------------------------------------------------
\* Properties of the cache over invocations that follow one another
\* (SpecCache)

IsTrimmedToken(v) ==
  /\ IsStr(v)
  /\ v.s # <<>>
  /\ v.s[1] # WS
  /\ v.s[Len(v.s)] # WS

\* C3 as claimed: get_secret_value is called at most once in a process.
C3_AtMostOneCall == get_secret_calls <= 1

\* C3 amended: once a credential is cached, get_secret_value is never called
\* again and every _load_token call returns the cached value, whatever
\* became of the fetches before; until then an invocation calls it once.
C3_NoCallOnceCached ==
  [][\A i \in {Main} :
       /\ _cached_secret # PyNone =>
            /\ get_secret_calls' = get_secret_calls
            /\ (pc[i] = "load_token" /\ pc'[i] # "load_token") =>
                 /\ pc'[i] = "request"
                 /\ token'[i] = _cached_secret
       /\ get_secret_calls' # get_secret_calls =>
            /\ pc[i] = "get_secret"
            /\ get_secret_calls' = get_secret_calls + 1
     ]_vars

\* C3 witness: the credential is cached after one call, an invocation that
\* took it from the cache failed on an HTTP error, and the secret has
\* changed since.
C3_Witness ==
  /\ get_secret_calls = 1
  /\ cache_hit[Main]
  /\ raised[Main] = "GitHubHTTPError"
  /\ resolve_secret(secret).err = "none"
  /\ PyStr(resolve_secret(secret).value) # _cached_secret

\* C7: _cached_secret is assigned at most once, by the first resolution
\* that succeeds; a resolution of a missing or empty SecretString, or of a
\* JSON without a token, raises and leaves it unset, so that the next
\* invocation calls get_secret_value; once set it never changes.
C7_WrittenOnce ==
  [][\A i \in {Main} :
       /\ cache_writes' <= 1
       /\ _cached_secret # PyNone => _cached_secret' = _cached_secret
       /\ _cached_secret' # _cached_secret =>
            /\ pc[i] = "resolve" /\ pc'[i] = "request"
            /\ cache_writes' = 1
            /\ _cached_secret' = token'[i]
       /\ (pc[i] = "resolve" /\ pc'[i] # "resolve") =>
            /\ (\/ ~IsStr(secret_string[i])
                \/ Trimmed(secret_string[i].s) = <<>>
                \/ /\ Decoded(i).ok
                   /\ Decoded(i).val.t = "dict"
                   /\ ~HasChoice(Decoded(i).val.items, NonBlankStr))
                 => pc'[i] = "failed"
            /\ pc'[i] = "failed" =>
                 /\ raised'[i] \in {"SecretMissing", "SecretEmpty", "SecretJSONNoToken"}
                 /\ _cached_secret' = PyNone
            /\ pc'[i] # "failed" =>
                 /\ pc'[i] = "request"
                 /\ _cached_secret' = token'[i]
                 /\ _cached_secret' # PyNone
       /\ (pc[i] = "load_token" /\ pc'[i] # "load_token" /\ _cached_secret = PyNone)
            => pc'[i] = "get_secret"
     ]_vars

\* C7 witness: a resolution failed on a JSON without a token, a later one
\* succeeded after a second call, and a third invocation found the cache.
C7_Witness ==
  /\ cache_writes = 1
  /\ get_secret_calls = 2
  /\ started = 3
  /\ cache_hit[Main]
  /\ _cached_secret # PyNone

\* C10: _cached_secret is None or a non-empty string without leading or
\* trailing whitespace, which the test of line 17 takes as set; and every
\* token handed to the fetch is such a string.
C10_CacheTrimmed ==
  /\ _cached_secret # PyNone =>
       IsTrimmedToken(_cached_secret) /\ CacheHit(_cached_secret)
  /\ \A i \in {Main} : response[i] # "none" => IsTrimmedToken(token[i])

\* C10 witness: a token taken out of a padded JSON value was handed to the
\* fetch and is cached.
C10_Witness ==
  /\ response[Main] # "none"
  /\ ~cache_hit[Main]
  /\ StartsWithBrace(secret_string[Main].s)
  /\ Decoded(Main).ok
  /\ token[Main] = PyStr(<<"a">>)
  /\ _cached_secret = token[Main]

\* ------------------------------------------------------------------------
\* Properties of concurrent invocations (SpecConc)

Holds(i) == pc[i] = "request"

\* C9: with the secret unchanged, the invocations that got a token got the
\* same one, the cache once set holds that token through every write, and
\* no invocation fails where another got a token.
C9_BenignRace ==
  /\ \A i, j \in Procs : (Holds(i) /\ Holds(j)) => token[i] = token[j]
  /\ \A i \in Procs : Holds(i) => _cached_secret = token[i]
  /\ \A i, j \in Procs : ~(Holds(i) /\ pc[j] = "failed")
  /\ cache_writes >= 1 => _cached_secret # PyNone
  /\ _cached_secret # PyNone =>
       /\ resolve_secret(secret).err = "none"
       /\ IsTrimmedToken(_cached_secret)

\* C9 witness: two invocations both called get_secret_value and both wrote
\* the cache.
C9_Witness ==
  /\ get_secret_calls >= 2
  /\ cache_writes >= 2
  /\ \A i \in Procs : Holds(i)
  /\ \A i \in Procs : ~cache_hit[i]

====
